---- MODULE Spec2Model ----
(***************************************************************************)
(* Prayer-times widget (Mecha-Mind/PrayerTimes): the next-prayer resolver, *)
(* the one-second countdown ticker and the time utilities, as a state      *)
(* machine.  The repository holds two builds of the page script: the       *)
(* modular one (src/js/app.js, ui.js, api.js, storage.js and the utils     *)
(* module src/unnamed/part_001) and the single-file one                    *)
(* (src/unnamed/part_000).  The variable `script` says which one the page  *)
(* loaded; code the two share is modelled once.                            *)
(*                                                                         *)
(* Strings that the code formats and parses again are sequences of         *)
(* one-character strings, so that formatting and parsing are computed and  *)
(* not assumed.  The evening marker (Arabic meem) is written "m" and the   *)
(* morning marker (Arabic sad) is written "s".                             *)
(***************************************************************************)
EXTENDS Integers, Sequences, FiniteSets, TLC

\* ------------------------------------------------------------------------
\* Bounds of the model
\* ------------------------------------------------------------------------

\* live repeating timers of one kind the model tracks before it stops arming
MaxTimers == 3

\* city searches in flight at once
MaxInFlight == 2

\* one-shot countdown timeouts pending at once (single-file build)
MaxTimeouts == 1

\* ------------------------------------------------------------------------
\* JavaScript numbers and strings
\* ------------------------------------------------------------------------

\* the not-a-number value of Number(...) and parseInt(...); every other
\* number of the model is an integer above it
NaN == -99999

isNaN(x) == x = NaN

Digits == <<"0", "1", "2", "3", "4", "5", "6", "7", "8", "9">>

IsDigit(c) == \E i \in 1..10 : Digits[i] = c

DigitVal(c) == (CHOOSE i \in 1..10 : Digits[i] = c) - 1

\* x * k + y with NaN propagating, as in hours * 60 + minutes
MulAdd(x, k, y) == IF isNaN(x) \/ isNaN(y) THEN NaN ELSE x * k + y

\* a > b; a comparison with NaN is false
Greater(a, b) == ~isNaN(a) /\ ~isNaN(b) /\ a > b

\* a >= b; a comparison with NaN is false
AtLeast(a, b) == ~isNaN(a) /\ ~isNaN(b) /\ a >= b

RECURSIVE DigitsValue(_, _)
\* value of the decimal digits of s, after acc
DigitsValue(s, acc) ==
    IF s = <<>> THEN acc
    ELSE DigitsValue(Tail(s), acc * 10 + DigitVal(Head(s)))

RECURSIVE LeadingDigits(_)
LeadingDigits(s) ==
    IF s = <<>> \/ ~IsDigit(Head(s)) THEN <<>>
    ELSE <<Head(s)>> \o LeadingDigits(Tail(s))

\* Number(s) for a string of the model: the whole string must be digits
\* (the empty string is 0); anything else is NaN.
Number(s) ==
    IF \A i \in 1..Len(s) : IsDigit(s[i]) THEN DigitsValue(s, 0) ELSE NaN

\* parseInt(s, 10): the leading digits, NaN when there are none
parseInt(s) ==
    IF LeadingDigits(s) = <<>> THEN NaN ELSE DigitsValue(LeadingDigits(s), 0)

RECURSIVE toString(_)
\* Number.prototype.toString()
toString(n) ==
    IF isNaN(n) THEN <<"N", "a", "N">>
    ELSE IF n < 0 THEN <<"-">> \o toString(-n)
    ELSE IF n < 10 THEN <<Digits[n + 1]>>
    ELSE toString(n \div 10) \o <<Digits[(n % 10) + 1]>>

\* String.prototype.padStart(2, '0')
padStart2(s) == IF Len(s) >= 2 THEN s ELSE IF Len(s) = 1 THEN <<"0">> \o s ELSE <<"0", "0">>

RECURSIVE SplitFrom(_, _, _)
\* String.prototype.split(sep) for a one-character separator:
\* cur is the piece being read
SplitFrom(s, sep, cur) ==
    IF s = <<>> THEN <<cur>>
    ELSE IF Head(s) = sep THEN <<cur>> \o SplitFrom(Tail(s), sep, <<>>)
    ELSE SplitFrom(Tail(s), sep, Append(cur, Head(s)))

split(s, sep) == SplitFrom(s, sep, <<>>)

\* a destructured array element: undefined when the array is shorter
Undefined == <<"undefined">>

At(arr, i) == IF i <= Len(arr) THEN arr[i] ELSE Undefined

\* ------------------------------------------------------------------------
\* utils: formatTime, formatTimeRemaining
\* ------------------------------------------------------------------------

\* the result of a call that throws (TypeError on undefined.split or
\* undefined.toString)
Throws == <<"throws">>

\* a timing field the API response lacks
Absent == <<"absent">>

\* formatTime with noon counted as morning (hours > 12 for hours >= 12)
formatTimeWrongNoon(time24) ==
    IF time24 = Absent THEN Throws
    ELSE
    LET parts   == split(time24, ":")
        hours   == Number(At(parts, 1))
        minutes == IF Len(parts) >= 2 THEN Number(parts[2]) ELSE NaN
        period  == IF Greater(hours, 12) THEN "m" ELSE "s"
        hours12 == IF isNaN(hours) \/ hours % 12 = 0 THEN 12 ELSE hours % 12
    IN  IF Len(parts) < 2 THEN Throws
        ELSE toString(hours12) \o <<":">> \o padStart2(toString(minutes))
                 \o <<" ", period>>

\* formatTime(time24): 24-hour "HH:MM" to the 12-hour display string
formatTime(time24) ==
    IF time24 = Absent THEN Throws
    ELSE
    LET parts   == split(time24, ":")
        hours   == Number(At(parts, 1))
        minutes == IF Len(parts) >= 2 THEN Number(parts[2]) ELSE NaN
        period  == IF AtLeast(hours, 12) THEN "m" ELSE "s"
        hours12 == IF isNaN(hours) \/ hours % 12 = 0 THEN 12 ELSE hours % 12
    IN  IF Len(parts) < 2 THEN Throws
        ELSE toString(hours12) \o <<":">> \o padStart2(toString(minutes))
                 \o <<" ", period>>

\* formatTimeRemaining with the minutes not reduced to the hour
formatTimeRemainingWholeMinutes(seconds) ==
    LET hours   == seconds \div 3600
        minutes == seconds \div 60
        secs    == seconds % 60
    IN  padStart2(toString(hours)) \o <<":">> \o padStart2(toString(minutes))
            \o <<":">> \o padStart2(toString(secs))

\* formatTimeRemaining(seconds): HH:MM:SS, each part padded to two digits
formatTimeRemaining(seconds) ==
    LET hours   == seconds \div 3600
        minutes == (seconds % 3600) \div 60
        secs    == seconds % 60
    IN  padStart2(toString(hours)) \o <<":">> \o padStart2(toString(minutes))
            \o <<":">> \o padStart2(toString(secs))

\* ------------------------------------------------------------------------
\* Parsing a display string back, as the resolver and the tick do
\* ------------------------------------------------------------------------

\* the 12-hour to 24-hour rule both parsers apply
To24(hours, period) ==
    IF isNaN(hours) THEN NaN
    ELSE IF period = <<"m">> /\ hours < 12 THEN hours + 12
    ELSE IF period = <<"s">> /\ hours = 12 THEN 0
    ELSE hours

\* updateNextPrayer's parse: split(' '), split(':').map(Number)
ResolverParse(str) ==
    LET sp      == split(str, " ")
        tm      == split(At(sp, 1), ":")
        hours   == Number(At(tm, 1))
        minutes == IF Len(tm) >= 2 THEN Number(tm[2]) ELSE NaN
    IN  [hours |-> To24(hours, At(sp, 2)), minutes |-> minutes]

\* updateCountdown's parse: split(' '), split(':'), parseInt(.., 10)
CountdownParse(str) ==
    LET sp      == split(str, " ")
        tm      == split(At(sp, 1), ":")
        hours   == parseInt(At(tm, 1))
        minutes == IF Len(tm) >= 2 THEN parseInt(tm[2]) ELSE NaN
    IN  [hours |-> To24(hours, At(sp, 2)), minutes |-> minutes]

\* ------------------------------------------------------------------------
\* State
\* ------------------------------------------------------------------------

VARIABLES
    script,               \* "modules" (src/js) or "single" (the single file)
    started,              \* init() has run (DOMContentLoaded)
    clock,                \* wall-clock time of day, seconds since midnight
    timings,              \* the API timings the stored schedule was built from
    prayerTimes,          \* prayer -> 12-hour display string, or Absent
    nextPrayer,           \* name of the next prayer, "null" before any run
    currentPrayerName,    \* the resolver's current prayer, "null" before any run
    active,               \* prayer cards carrying the class 'active'
    resolvedAt,           \* currentTime (minutes) read by the last resolver run
    countdownInterval,    \* handle of the countdown interval, 0 for null
    updateDateTimeInterval, \* handle of the date/time interval, 0 for null
    timers,               \* live repeating timers: [id, fn]
    timeouts,             \* pending setTimeout(updateCountdown, 100)
    countdownText,        \* text of the countdown element
    locationText,         \* text of the current-location element
    tick,                 \* what the last updateCountdown call did
    isAudioEnabled,
    currentCity,
    storage,              \* localStorage item prayerTimesPreferences
    inFlight,             \* searches awaiting a response, oldest first
    tornDown,             \* cleanup() has run
    cleanupError,         \* the error the last cleanup() call ended in
    cleanupCleared,       \* the countdown handle the last cleanup() call
                          \* cleared, 0 when it found none
    loadedFrom,           \* the search whose response the stored schedule
                          \* came from
    arg, out              \* input and result of a utility function applied alone

vars == <<script, started, clock, timings, prayerTimes, nextPrayer,
          currentPrayerName, active, resolvedAt, countdownInterval,
          updateDateTimeInterval, timers, timeouts, countdownText,
          locationText, tick, isAudioEnabled, currentCity, storage,
          inFlight, tornDown, cleanupError, cleanupCleared, loadedFrom, arg, out>>

\* ------------------------------------------------------------------------
\* Inputs: API timings, clock instants, cities
\* ------------------------------------------------------------------------

prayerOrder == <<"fajr", "sunrise", "dhuhr", "asr", "maghrib", "isha">>

Prayers == {prayerOrder[i] : i \in 1..6}

IndexOf(p) == CHOOSE i \in 1..6 : prayerOrder[i] = p

\* One timing field of an API response: a time of day; "plain" is HH:MM,
\* "zoned" is HH:MM followed by a time-zone tag such as " (EET)", "absent"
\* is a response without the field.
T(h, m) == [h |-> h, m |-> m, kind |-> "plain"]

Zoned(h, m) == [h |-> h, m |-> m, kind |-> "zoned"]

NoField == [h |-> 0, m |-> 0, kind |-> "absent"]

\* the string the API sends for a timing field
Raw(t) ==
    IF t.kind = "absent" THEN Absent
    ELSE padStart2(toString(t.h)) \o <<":">> \o padStart2(toString(t.m))
             \o (IF t.kind = "zoned" THEN <<" ", "(", "E", "E", "T", ")">> ELSE <<>>)

\* minutes since midnight of a timing field
MinutesOf(t) == t.h * 60 + t.m

\* a response's timings from its six fields in the fixed order
Timings(f, s, d, a, m, i) ==
    [p \in Prayers |-> <<f, s, d, a, m, i>>[IndexOf(p)]]

\* no schedule loaded yet: prayerTimes = {}
NoTimings == [p \in Prayers |-> NoField]

EmptySchedule == [p \in Prayers |-> Absent]

\* every field present and a time of day
AllPlain(tm) == \A p \in Prayers : tm[p].kind = "plain"

\* non-decreasing in the fixed order
WellFormed(tm) ==
    /\ AllPlain(tm)
    /\ \A i \in 1..5 : MinutesOf(tm[prayerOrder[i]]) <= MinutesOf(tm[prayerOrder[i + 1]])

\* an ordinary day
Day == Timings(T(5, 7), T(6, 30), T(12, 0), T(15, 15), T(18, 1), T(19, 30))

\* a summer day far north: fajr just after midnight
Night == Timings(T(0, 5), T(2, 40), T(12, 30), T(17, 0), T(22, 10), T(23, 30))

\* every field carries a time-zone tag
ZonedDay == Timings(Zoned(5, 7), Zoned(6, 30), Zoned(12, 0), Zoned(15, 15),
                    Zoned(18, 1), Zoned(19, 30))

\* the ordinary day with a time-zone tag on one field only
ZonedFajr == [Day EXCEPT !["fajr"] = Zoned(5, 7)]

ZonedSunrise == [Day EXCEPT !["sunrise"] = Zoned(6, 30)]

\* a response without its Isha field
NoIsha == Timings(T(5, 7), T(6, 30), T(12, 0), T(15, 15), T(18, 1), NoField)

Responses == {Day, Night, ZonedDay, NoIsha}

\* hh:mm:ss as seconds since midnight
At3(h, m, sec) == h * 3600 + m * 60 + sec

\* times of day the resolver is tried on: midnight, a morning time, a time
\* in the noon hour, the last minute of the day
SampleTimes == {T(0, 0), T(5, 7), T(12, 30), T(23, 59)}

\* a day whose first and last prayers are at its first and last minute
LongDay == Timings(T(0, 0), T(5, 7), T(12, 0), T(12, 30), T(18, 1), T(23, 59))

\* schedules of the resolver's trials: any six of two sample times, in
\* any order, the non-decreasing ones (ties included) over all samples,
\* and three strictly increasing days
SampleSchedules ==
    [Prayers -> {T(5, 7), T(12, 30)}]
        \cup {tm \in [Prayers -> SampleTimes] :
                \A i \in 1..5 : MinutesOf(tm[prayerOrder[i]]) <= MinutesOf(tm[prayerOrder[i + 1]])}
        \cup {Day, Night, LongDay}

\* every timing field of the model's responses
Fields ==
    SampleTimes \cup {NoField}
        \cup UNION {{tm[p] : p \in Prayers} : tm \in Responses}

\* the getters of new Date() on the wall clock
getHours(now) == now \div 3600

getMinutes(now) == (now % 3600) \div 60

getSeconds(now) == now % 60

\* the instant of I that follows now on the 24-hour cycle
NextInstant(I, now) ==
    IF \E x \in I : x > now
    THEN CHOOSE x \in I : x > now /\ \A y \in I : y > now => x <= y
    ELSE CHOOSE x \in I : \A y \in I : x <= y

\* ------------------------------------------------------------------------
\* updatePrayerTimes
\* ------------------------------------------------------------------------

\* formatTime on each timing field of the model
Shown == [t \in Fields |-> formatTime(Raw(t))]

\* the schedule assigned entry by entry, a field that cannot be formatted
\* leaving the stored entry in place
FormattedTimesEntryByEntry(tm) ==
    [p \in Prayers |-> IF Shown[tm[p]] = Throws THEN prayerTimes[p]
                       ELSE Shown[tm[p]]]

\* the schedule updatePrayerTimes(timings) stores
FormattedTimes(tm) == [p \in Prayers |-> Shown[tm[p]]]

\* formatTime throws on a field, so the assignment never happens
UpdatePrayerTimesThrows(tm) == \E p \in Prayers : FormattedTimes(tm)[p] = Throws

\* ------------------------------------------------------------------------
\* updateNextPrayer: the scan and the current prayer
\* ------------------------------------------------------------------------

\* currentTime of updateNextPrayer
CurrentMinutes(now) == getHours(now) * 60 + getMinutes(now)

PrayerTimeInMinutes(str) ==
    LET r == ResolverParse(str) IN MulAdd(r.hours, 60, r.minutes)

\* the display strings a stored schedule can hold
Displays == {Shown[t] : t \in Fields} \ {Throws}

\* prayerTimeInMinutes of each display string
MinutesShown == [str \in Displays |-> PrayerTimeInMinutes(str)]

\* the comparison with >= in place of >
IsUpcomingOrNow(prayerTimeInMinutes, currentTime) ==
    AtLeast(prayerTimeInMinutes, currentTime)

\* the comparison taken as passed when the entry's minutes are not a number
IsUpcomingOrMalformed(prayerTimeInMinutes, currentTime) ==
    isNaN(prayerTimeInMinutes) \/ Greater(prayerTimeInMinutes, currentTime)

\* if (prayerTimeInMinutes > currentTime)
IsUpcoming(prayerTimeInMinutes, currentTime) ==
    Greater(prayerTimeInMinutes, currentTime)

RECURSIVE ScanFrom(_, _, _)
\* the for loop over prayerOrder from index i: the first entry that is
\* present and upcoming, "null" when the loop ends without a break
ScanFrom(i, pt, currentTime) ==
    IF i > 6 THEN "null"
    ELSE IF pt[prayerOrder[i]] = Absent THEN ScanFrom(i + 1, pt, currentTime)
    ELSE IF IsUpcoming(MinutesShown[pt[prayerOrder[i]]], currentTime)
         THEN prayerOrder[i]
    ELSE ScanFrom(i + 1, pt, currentTime)

\* the default taken as the last prayer of the day in place of fajr
NextPrayerNameDefaultIsha(pt, currentTime) ==
    LET found == ScanFrom(1, pt, currentTime)
    IN  IF found = "null" THEN "isha" ELSE found

\* nextPrayerName after the default to fajr
NextPrayerName(pt, currentTime) ==
    LET found == ScanFrom(1, pt, currentTime)
    IN  IF found = "null" THEN "fajr" ELSE found

\* the current prayer without the wrap to isha
CurrentPrayerNoWrap(nextPrayerName) ==
    prayerOrder[IF IndexOf(nextPrayerName) = 1 THEN 1 ELSE IndexOf(nextPrayerName) - 1]

\* currentPrayerIndex === 0 ? 'isha' : prayerOrder[currentPrayerIndex - 1]
CurrentPrayer(nextPrayerName) ==
    IF IndexOf(nextPrayerName) = 1 THEN "isha"
    ELSE prayerOrder[IndexOf(nextPrayerName) - 1]

\* ------------------------------------------------------------------------
\* updateCountdown
\* ------------------------------------------------------------------------

Sentinel == <<"-", "-", ":", "-", "-", ":", "-", "-">>

\* texts the code writes as a whole; HtmlText is what the page markup holds
HtmlText == <<"html">>

LoadingText == <<"loading">>

UpdatingText == <<"updating">>

SearchingText == <<"searching">>

\* currentTime of updateCountdown
CurrentSeconds(now) == getHours(now) * 3600 + getMinutes(now) * 60 + getSeconds(now)

\* the difference without the next-day wrap
RemainingNoWrap(prayerTimeInSeconds, currentTime) ==
    prayerTimeInSeconds - currentTime

\* timeRemaining: the difference, plus 24 hours when negative
Remaining(prayerTimeInSeconds, currentTime) ==
    LET timeRemaining == prayerTimeInSeconds - currentTime
    IN  IF timeRemaining < 0 THEN timeRemaining + 24 * 3600 ELSE timeRemaining

\* the check with the prayer's own second inside the window
IsTimeForPrayerFromZero(timeRemaining, audio) ==
    timeRemaining <= 60 /\ timeRemaining >= 0 /\ audio

\* the single file's check before playAthan():
\* timeRemaining <= 60 && timeRemaining > 0 && isAudioEnabled
IsTimeForPrayer(timeRemaining, audio) ==
    timeRemaining <= 60 /\ timeRemaining > 0 /\ audio

\* updateCountdown's hours and minutes of each display string
ParsedShown == [str \in Displays |-> CountdownParse(str)]

NoTick == [ret |-> "none", remaining |-> -1, target |-> -1, now |-> -1,
           name |-> "null", entry |-> Absent, played |-> FALSE,
           text |-> HtmlText]

\* One call of updateCountdown: its return value, the text it leaves in the
\* countdown element (text is what the element held), the timeRemaining it
\* passed to formatTimeRemaining, and whether it called playAthan; with
\* them the currentTime it read, the selection and the schedule entry it
\* worked on.
CountdownCall(scr, pt, np, audio, now, text) ==
    IF np = "null" \/ pt[np] = Absent
    THEN [ret |-> "false", remaining |-> -1, target |-> -1,
          now |-> CurrentSeconds(now), name |-> np, entry |-> Absent,
          played |-> FALSE, text |-> Sentinel]
    ELSE
    LET r == ParsedShown[pt[np]]
    IN  IF isNaN(r.hours) \/ isNaN(r.minutes)
        THEN [ret |-> "false", remaining |-> -1, target |-> -1,
              now |-> CurrentSeconds(now), name |-> np, entry |-> pt[np],
              played |-> FALSE, text |-> text]
        ELSE
        LET prayerTimeInSeconds == r.hours * 3600 + r.minutes * 60
            timeRemaining == Remaining(prayerTimeInSeconds, CurrentSeconds(now))
        IN  [ret |-> "true", remaining |-> timeRemaining,
             target |-> prayerTimeInSeconds, now |-> CurrentSeconds(now),
             name |-> np, entry |-> pt[np],
             played |-> (scr = "single" /\ IsTimeForPrayer(timeRemaining, audio)),
             text |-> formatTimeRemaining(timeRemaining)]

\* ------------------------------------------------------------------------
\* Timers
\* ------------------------------------------------------------------------

\* the id setInterval returns: one no live timer has
FreshId(ts) ==
    CHOOSE i \in 1..(Cardinality(ts) + 1) :
        /\ \A t \in ts : t.id # i
        /\ \A j \in 1..(i - 1) : \E t \in ts : t.id = j

clearInterval(ts, handle) == {t \in ts : t.id # handle}

\* setInterval(fn, ms): a repeating timer calling fn every ms milliseconds
setInterval(ts, fn, ms) ==
    ts \cup {[id |-> FreshId(ts), fn |-> fn, ms |-> ms]}

\* startCountdown without the cancellation
KeepPrevious(ts, handle) == ts

\* if (countdownInterval) clearInterval(countdownInterval)
CancelPrevious(ts, handle) ==
    IF handle # 0 THEN clearInterval(ts, handle) ELSE ts

CountdownTimers == {t \in timers : t.fn = "updateCountdown"}

DateTimeTimers == {t \in timers : t.fn = "updateDateTime"}

\* the model arms no timer beyond its bound
CanArm == Cardinality(timers) <= MaxTimers

\* ------------------------------------------------------------------------
\* Cities, the geocoder, the preference store
\* ------------------------------------------------------------------------

NoPlace == [name |-> "", country |-> ""]

Cairo == [name |-> "Cairo", country |-> "Egypt"]

Mecca == [name |-> "Mecca", country |-> "Saudi Arabia"]

\* results[0] of the geocoder for a query; NoPlace when it has no results
Geocode(query) ==
    IF query \in {"Cairo,EG", "Cairo", "Cairo,Egypt"} THEN Cairo
    ELSE IF query \in {"Mecca", "Mecca,Saudi Arabia"} THEN Mecca
    ELSE NoPlace

\* `${name},${country}`
CityString(place) ==
    IF place = Cairo THEN "Cairo,Egypt"
    ELSE IF place = Mecca THEN "Mecca,Saudi Arabia" ELSE ","

\* `${name}, ${country}`
LocationString(place) ==
    IF place = Cairo THEN "Cairo, Egypt"
    ELSE IF place = Mecca THEN "Mecca, Saudi Arabia" ELSE ", "

\* what the user types into the city field
Queries == {"Mecca", "Atlantis"}

NothingStored == [kind |-> "none", city |-> "", audioEnabled |-> FALSE]

\* localStorage after savePreferences(city, audioEnabled)
Saved(city, audioEnabled) ==
    [kind |-> "saved", city |-> city, audioEnabled |-> audioEnabled]

\* what an earlier visit may have left in localStorage
StoredAtLoad == {NothingStored} \cup {Saved("Mecca,Saudi Arabia", a) : a \in BOOLEAN}

\* loadPreferences() of the storage module
loadPreferences(st) ==
    IF st.kind = "saved"
    THEN [city |-> IF st.city = "" THEN "Cairo,EG" ELSE st.city,
          audioEnabled |-> st.audioEnabled]
    ELSE [city |-> "Cairo,EG", audioEnabled |-> FALSE]

\* a search awaiting its response
Request(query, initial) ==
    [query |-> query, initial |-> initial, stage |-> "geocode",
     overtaken |-> FALSE]

RemoveAt(q, i) == [j \in 1..(Len(q) - 1) |-> IF j < i THEN q[j] ELSE q[j + 1]]

\* the searches still awaiting a response once search i has delivered its
\* schedule: those requested before it have been overtaken
Delivered(q, i) ==
    [j \in 1..(Len(q) - 1) |->
        IF j < i THEN [q[j] EXCEPT !.overtaken = TRUE] ELSE q[j + 1]]

\* no schedule has been stored yet
NoSearch == [query |-> "", overtaken |-> FALSE]

\* what is kept of the search whose response is stored
Source(request) == [query |-> request.query, overtaken |-> request.overtaken]

\* ------------------------------------------------------------------------
\* Initial state: the scripts have been evaluated, init() has not run
\* ------------------------------------------------------------------------

NoArg == [hour |-> 0, minute |-> 0]

InitAt(I, stored, args) ==
    /\ script \in {"modules", "single"}
    /\ started = FALSE
    /\ clock \in I
    /\ timings = NoTimings
    /\ prayerTimes = EmptySchedule
    /\ nextPrayer = "null"
    /\ currentPrayerName = "null"
    /\ active = {}
    /\ resolvedAt = -1
    /\ countdownInterval = 0
    /\ updateDateTimeInterval = 0
    /\ timers = {}
    /\ timeouts = 0
    /\ countdownText = HtmlText
    /\ locationText = "html"
    /\ tick = NoTick
    /\ isAudioEnabled = FALSE
    /\ currentCity = IF script = "modules" THEN "" ELSE "Cairo,EG"
    /\ storage \in stored
    /\ inFlight = <<>>
    /\ tornDown = FALSE
    /\ cleanupError = "none"
    /\ cleanupCleared = 0
    /\ loadedFrom = NoSearch
    /\ arg \in args
    /\ out = <<>>

\* ------------------------------------------------------------------------
\* Pieces of handlers
\* ------------------------------------------------------------------------

\* the scan run on the schedule stored before the handler, not on pt
ResolveStoredSchedule(pt) ==
    LET np == NextPrayerName(prayerTimes, CurrentMinutes(clock))
    IN  /\ nextPrayer' = np
        /\ currentPrayerName' = CurrentPrayer(np)
        /\ active' = {CurrentPrayer(np)}
        /\ resolvedAt' = CurrentMinutes(clock)

\* the highlights of earlier runs are left on their cards
ResolveKeepingHighlights(pt) ==
    LET np == NextPrayerName(pt, CurrentMinutes(clock))
    IN  /\ nextPrayer' = np
        /\ currentPrayerName' = CurrentPrayer(np)
        /\ active' = active \cup {CurrentPrayer(np)}
        /\ resolvedAt' = CurrentMinutes(clock)

\* updateNextPrayer up to the selection: the scan over schedule pt, the
\* highlight, the stored selection
Resolve(pt) ==
    LET np == NextPrayerName(pt, CurrentMinutes(clock))
    IN  /\ nextPrayer' = np
        /\ currentPrayerName' = CurrentPrayer(np)
        /\ active' = {CurrentPrayer(np)}
        /\ resolvedAt' = CurrentMinutes(clock)

\* no updateCountdown call is made
NotTicked(call) == tick' = tick

\* one updateCountdown call is recorded
Ticked(call) == tick' = call

\* timers and handle after startCountdown() on timers ts
StartedTimers(ts) ==
    setInterval(CancelPrevious(ts, countdownInterval), "updateCountdown", 1000)

StartedHandle(ts) == FreshId(CancelPrevious(ts, countdownInterval))

\* ------------------------------------------------------------------------
\* init (DOMContentLoaded)
\* ------------------------------------------------------------------------

\* app.js init(): preferences, updateDateTime() (which resolves and starts
\* the countdown), the one-minute interval, then handleSearch(true) up to
\* its await: setLoading(true) and the request
initModules ==
    /\ script = "modules"
    /\ ~started
    /\ LET prefs == loadPreferences(storage)
           np    == NextPrayerName(prayerTimes, CurrentMinutes(clock))
           call  == CountdownCall(script, prayerTimes, np, prefs.audioEnabled,
                                  clock, countdownText)
           ts    == StartedTimers(timers)
       IN  /\ started' = TRUE
           /\ currentCity' = prefs.city
           /\ isAudioEnabled' = prefs.audioEnabled
           /\ Resolve(prayerTimes)
           /\ Ticked(call)
           /\ countdownInterval' = StartedHandle(timers)
           /\ updateDateTimeInterval' = FreshId(ts)
           /\ timers' = setInterval(ts, "updateDateTime", 60000)
           /\ countdownText' = LoadingText
           /\ locationText' = "loading"
           /\ inFlight' = Append(inFlight, Request(prefs.city, TRUE))
    /\ UNCHANGED <<script, clock, timings, prayerTimes, timeouts, storage,
                   tornDown, cleanupError, cleanupCleared, loadedFrom, arg, out>>

\* the single file's init(): updateDateTime(), the one-minute interval
\* (its handle is not kept), loadPreferences(), then
\* fetchPrayerTimes(currentCity) up to its first await
initSingle ==
    /\ script = "single"
    /\ ~started
    /\ started' = TRUE
    /\ Resolve(prayerTimes)
    /\ countdownText' = UpdatingText
    /\ timeouts' = timeouts + 1
    /\ timers' = setInterval(timers, "updateDateTime", 60000)
    /\ currentCity' = IF storage.kind = "saved" THEN storage.city ELSE currentCity
    /\ isAudioEnabled' = IF storage.kind = "saved" THEN storage.audioEnabled
                         ELSE isAudioEnabled
    /\ locationText' = "loading"
    /\ inFlight' = Append(inFlight, Request(currentCity', TRUE))
    /\ UNCHANGED <<script, clock, timings, prayerTimes, tick,
                   countdownInterval, updateDateTimeInterval, storage,
                   tornDown, cleanupError, cleanupCleared, loadedFrom, arg, out>>

init == initModules \/ initSingle

\* ------------------------------------------------------------------------
\* Timer callbacks
\* ------------------------------------------------------------------------

\* the one-minute interval fires: updateDateTime() -> updateNextPrayer()
updateDateTime ==
    /\ DateTimeTimers # {}
    /\ CanArm
    /\ Resolve(prayerTimes)
    /\ IF script = "modules"
       THEN LET np   == NextPrayerName(prayerTimes, CurrentMinutes(clock))
                call == CountdownCall(script, prayerTimes, np, isAudioEnabled,
                                      clock, countdownText)
            IN  /\ Ticked(call)
                /\ countdownText' = call.text
                /\ timers' = StartedTimers(timers)
                /\ countdownInterval' = StartedHandle(timers)
                /\ UNCHANGED timeouts
       ELSE /\ timeouts < MaxTimeouts
            /\ countdownText' = UpdatingText
            /\ timeouts' = timeouts + 1
            /\ UNCHANGED <<tick, timers, countdownInterval>>
    /\ UNCHANGED <<script, started, clock, timings, prayerTimes,
                   updateDateTimeInterval, locationText, isAudioEnabled,
                   currentCity, storage, inFlight, tornDown, cleanupError,
                   cleanupCleared, loadedFrom,
                   arg, out>>

\* the effect of one updateCountdown() call on the display
CountdownRuns ==
    LET call == CountdownCall(script, prayerTimes, nextPrayer, isAudioEnabled,
                              clock, countdownText)
    IN  /\ Ticked(call)
        /\ countdownText' = call.text

\* the one-second interval fires
updateCountdown ==
    /\ CountdownTimers # {}
    /\ CountdownRuns
    /\ UNCHANGED <<script, started, clock, timings, prayerTimes, nextPrayer,
                   currentPrayerName, active, resolvedAt, countdownInterval,
                   updateDateTimeInterval, timers, timeouts, locationText,
                   isAudioEnabled, currentCity, storage, inFlight, tornDown,
                   cleanupError, cleanupCleared, loadedFrom, arg, out>>

\* a setTimeout(updateCountdown, 100) of the single file fires
updateCountdownTimeout ==
    /\ timeouts > 0
    /\ timeouts' = timeouts - 1
    /\ CountdownRuns
    /\ UNCHANGED <<script, started, clock, timings, prayerTimes, nextPrayer,
                   currentPrayerName, active, resolvedAt, countdownInterval,
                   updateDateTimeInterval, timers, locationText,
                   isAudioEnabled, currentCity, storage, inFlight, tornDown,
                   cleanupError, cleanupCleared, loadedFrom, arg, out>>

\* time passes to the next instant of I
Elapse(I) ==
    /\ clock' = NextInstant(I, clock)
    /\ UNCHANGED <<script, started, timings, prayerTimes, nextPrayer,
                   currentPrayerName, active, resolvedAt, countdownInterval,
                   updateDateTimeInterval, timers, timeouts, countdownText,
                   locationText, tick, isAudioEnabled, currentCity,
                   storage, inFlight, tornDown, cleanupError, cleanupCleared, loadedFrom, arg, out>>

\* ------------------------------------------------------------------------
\* toggleAudio, cleanup
\* ------------------------------------------------------------------------

\* click on the audio button (both builds flip the flag and save)
toggleAudio ==
    /\ started
    /\ isAudioEnabled' = ~isAudioEnabled
    /\ storage' = Saved(currentCity, ~isAudioEnabled)
    /\ UNCHANGED <<script, started, clock, timings, prayerTimes, nextPrayer,
                   currentPrayerName, active, resolvedAt, countdownInterval,
                   updateDateTimeInterval, timers, timeouts, countdownText,
                   locationText, tick, currentCity, inFlight,
                   tornDown, cleanupError, cleanupCleared, loadedFrom, arg, out>>

\* timers after cleanupUI(): the countdown interval is cleared
cleanupUI(ts) ==
    IF countdownInterval # 0 THEN clearInterval(ts, countdownInterval) ELSE ts

\* beforeunload of the modular build: cleanup() clears the date/time
\* interval, calls cleanupUI(), which clears the countdown interval and then
\* calls getElements(), a name ui.js does not define: the ReferenceError
\* ends cleanup() before it pauses the audio and removes its own listener,
\* so a later beforeunload runs it again.  The page is left after it was
\* loaded.
cleanup ==
    /\ script = "modules"
    /\ started
    /\ timers' = cleanupUI(IF updateDateTimeInterval # 0
                           THEN clearInterval(timers, updateDateTimeInterval)
                           ELSE timers)
    /\ updateDateTimeInterval' = 0
    /\ countdownInterval' = 0
    /\ tornDown' = TRUE
    /\ cleanupError' = "ReferenceError"
    /\ cleanupCleared' = countdownInterval
    /\ UNCHANGED loadedFrom
    /\ UNCHANGED <<script, started, clock, timings, prayerTimes, nextPrayer,
                   currentPrayerName, active, resolvedAt, timeouts,
                   countdownText, locationText, tick,
                   isAudioEnabled, currentCity, storage, inFlight, arg, out>>

\* ------------------------------------------------------------------------
\* City search
\* ------------------------------------------------------------------------

\* A search is started with a non-empty city field (the listeners of both
\* builds refuse an empty one).  Modular build: handleSearch() up to its
\* await, i.e. setLoading(true).  Single file: handleSearch() shows the
\* searching text and fetchPrayerTimes() shows the loading location, up to
\* the first await.
handleSearch(query) ==
    /\ started
    /\ Len(inFlight) < MaxInFlight
    /\ inFlight' = Append(inFlight, Request(query, FALSE))
    /\ countdownText' = IF script = "modules" THEN LoadingText ELSE SearchingText
    /\ locationText' = "loading"
    /\ UNCHANGED <<script, started, clock, timings, prayerTimes, nextPrayer,
                   currentPrayerName, active, resolvedAt, countdownInterval,
                   updateDateTimeInterval, timers, timeouts, tick,
                   isAudioEnabled, currentCity, storage, tornDown,
                   cleanupError, cleanupCleared, loadedFrom, arg, out>>

\* A search ends without data: the geocoder has no result, a fetch fails, or
\* the prayer-time response is not a success.  Modular build: the error is
\* caught in handleSearch, which notifies; setLoading(false) changes
\* nothing.  Single file, before geocoding: "choose a city" is shown when
\* there is no result, nothing changes when the fetch fails; after
\* geocoding: nothing changes.
searchFails(i, transport) ==
    /\ i \in 1..Len(inFlight)
    /\ transport \/ inFlight[i].stage = "timings" \/ Geocode(inFlight[i].query) = NoPlace
    /\ inFlight' = RemoveAt(inFlight, i)
    /\ locationText' = IF script = "single" /\ inFlight[i].stage = "geocode" /\ ~transport
                       THEN "choose" ELSE locationText
    /\ UNCHANGED <<script, started, clock, timings, prayerTimes, nextPrayer,
                   currentPrayerName, active, resolvedAt, countdownInterval,
                   updateDateTimeInterval, timers, timeouts, countdownText,
                   tick, isAudioEnabled, currentCity, storage,
                   tornDown, cleanupError, cleanupCleared, loadedFrom, arg, out>>

\* Modular build: fetchPrayerTimes(city) resolves with timings tm and
\* handleSearch continues: currentCity, updatePrayerTimes (which throws when
\* a field is missing: the catch notifies and the rest is skipped),
\* updateLocation, updateNextPrayer, savePreferences.
handleSearchResolves(i, tm) ==
    /\ script = "modules"
    /\ i \in 1..Len(inFlight)
    /\ Geocode(inFlight[i].query) # NoPlace
    /\ CanArm
    /\ LET place == Geocode(inFlight[i].query)
           pt    == FormattedTimes(tm)
           np    == NextPrayerName(pt, CurrentMinutes(clock))
           call  == CountdownCall(script, pt, np, isAudioEnabled, clock,
                                  countdownText)
       IN  /\ currentCity' = CityString(place)
           /\ IF UpdatePrayerTimesThrows(tm)
              THEN /\ inFlight' = RemoveAt(inFlight, i)
                   /\ UNCHANGED <<timings, prayerTimes, nextPrayer,
                                  currentPrayerName, active, resolvedAt,
                                  countdownInterval, timers, countdownText,
                                  locationText, tick, storage, loadedFrom>>
              ELSE /\ inFlight' = Delivered(inFlight, i)
                   /\ loadedFrom' = Source(inFlight[i])
                   /\ prayerTimes' = pt
                   /\ timings' = tm
                   /\ locationText' = LocationString(place)
                   /\ Resolve(pt)
                   /\ Ticked(call)
                   /\ countdownText' = call.text
                   /\ timers' = StartedTimers(timers)
                   /\ countdownInterval' = StartedHandle(timers)
                   /\ storage' = Saved(currentCity', isAudioEnabled)
    /\ UNCHANGED <<script, started, clock, updateDateTimeInterval, timeouts,
                   isAudioEnabled, tornDown, cleanupError, cleanupCleared,
                   arg, out>>

\* Single file: the geocoder answers with a place: currentCity, the
\* location text and the saved preferences change before the prayer times
\* are requested.
fetchGeocoded(i) ==
    /\ script = "single"
    /\ i \in 1..Len(inFlight)
    /\ inFlight[i].stage = "geocode"
    /\ Geocode(inFlight[i].query) # NoPlace
    /\ LET place == Geocode(inFlight[i].query)
       IN  /\ currentCity' = CityString(place)
           /\ locationText' = LocationString(place)
           /\ storage' = Saved(currentCity', isAudioEnabled)
           /\ inFlight' = [inFlight EXCEPT ![i].stage = "timings"]
    /\ UNCHANGED <<script, started, clock, timings, prayerTimes, nextPrayer,
                   currentPrayerName, active, resolvedAt, countdownInterval,
                   updateDateTimeInterval, timers, timeouts, countdownText,
                   tick, isAudioEnabled, tornDown, cleanupError, cleanupCleared, loadedFrom,
                   arg, out>>

\* Single file: the prayer-time response has code 200: updatePrayerTimes
\* (a missing field throws into the catch, which alerts), updateNextPrayer()
\* and startCountdown().
fetchTimed(i, tm) ==
    /\ script = "single"
    /\ i \in 1..Len(inFlight)
    /\ inFlight[i].stage = "timings"
    /\ CanArm
    /\ timeouts < MaxTimeouts
    /\ LET pt   == FormattedTimes(tm)
           np   == NextPrayerName(pt, CurrentMinutes(clock))
           call == CountdownCall(script, pt, np, isAudioEnabled, clock,
                                 UpdatingText)
       IN  IF UpdatePrayerTimesThrows(tm)
           THEN /\ inFlight' = RemoveAt(inFlight, i)
                /\ UNCHANGED <<timings, prayerTimes, nextPrayer,
                               currentPrayerName, active, resolvedAt,
                               countdownInterval, timers, timeouts,
                               countdownText, tick, loadedFrom>>
           ELSE /\ inFlight' = Delivered(inFlight, i)
                /\ loadedFrom' = Source(inFlight[i])
                /\ prayerTimes' = pt
                /\ timings' = tm
                /\ Resolve(pt)
                /\ timeouts' = timeouts + 1
                /\ Ticked(call)
                /\ countdownText' = call.text
                /\ timers' = StartedTimers(timers)
                /\ countdownInterval' = StartedHandle(timers)
    /\ UNCHANGED <<script, started, clock, updateDateTimeInterval,
                   locationText, isAudioEnabled, currentCity, storage,
                   tornDown, cleanupError, cleanupCleared, arg, out>>

\* ------------------------------------------------------------------------
\* The application: a day's schedules and instants
\* ------------------------------------------------------------------------

\* the instants the application is observed at: a minute before the
\* ordinary day's fajr, and late at night
Instants == {At3(5, 6, 0), At3(23, 58, 0)}

Init == InitAt(Instants, StoredAtLoad, {NoArg})

Next ==
    \/ init
    \/ updateDateTime
    \/ updateCountdown
    \/ updateCountdownTimeout
    \/ Elapse(Instants)
    \/ toggleAudio
    \/ cleanup
    \/ \E q \in Queries : handleSearch(q)
    \/ \E i \in 1..MaxInFlight, transport \in BOOLEAN : searchFails(i, transport)
    \/ \E i \in 1..MaxInFlight, tm \in Responses : handleSearchResolves(i, tm)
    \/ \E i \in 1..MaxInFlight : fetchGeocoded(i)
    \/ \E i \in 1..MaxInFlight, tm \in Responses : fetchTimed(i, tm)

Spec == Init /\ [][Next]_vars

\* ------------------------------------------------------------------------
\* The ticker, second by second around a prayer time: only the search that
\* init starts, the timers, the audio button
\* ------------------------------------------------------------------------

TickerInstants ==
    {At3(0, 4, 30), At3(5, 5, 59), At3(5, 6, 0), At3(5, 6, 1), At3(5, 6, 59),
     At3(5, 7, 0), At3(5, 7, 1), At3(23, 58, 0)}

TickerResponses == {Day, Night, ZonedDay, ZonedFajr, ZonedSunrise}

InitTicker == InitAt(TickerInstants, {NothingStored}, {NoArg})

NextTicker ==
    \/ init
    \/ updateDateTime
    \/ updateCountdown
    \/ updateCountdownTimeout
    \/ Elapse(TickerInstants)
    \/ toggleAudio
    \/ \E tm \in TickerResponses : handleSearchResolves(1, tm)
    \/ fetchGeocoded(1)
    \/ \E tm \in TickerResponses : fetchTimed(1, tm)

SpecTicker == InitTicker /\ [][NextTicker]_vars

\* ------------------------------------------------------------------------
\* The resolver on many schedules, at each sample time and a minute before
\* ------------------------------------------------------------------------

ResolverInstants ==
    {At3(0, 0, 0), At3(5, 6, 0), At3(5, 7, 0), At3(12, 29, 59), At3(12, 30, 0),
     At3(23, 58, 0), At3(23, 59, 0)}

InitResolver == InitAt(ResolverInstants, {NothingStored}, {NoArg})

NextResolver ==
    \/ init
    \/ updateDateTime
    \/ updateCountdownTimeout
    \/ Elapse(ResolverInstants)
    \/ \E tm \in SampleSchedules : handleSearchResolves(1, tm)
    \/ fetchGeocoded(1)
    \/ \E tm \in SampleSchedules : fetchTimed(1, tm)

SpecResolver == InitResolver /\ [][NextResolver]_vars

\* ------------------------------------------------------------------------
\* formatTime applied alone, to every time of day
\* ------------------------------------------------------------------------

TimesOfDay == [hour : 0..23, minute : 0..59]

\* out = formatTime("HH:MM") for the time of day arg
applyFormatTime ==
    /\ out = <<>>
    /\ out' = formatTime(Raw(T(arg.hour, arg.minute)))
    /\ UNCHANGED <<script, started, clock, timings, prayerTimes, nextPrayer,
                   currentPrayerName, active, resolvedAt, countdownInterval,
                   updateDateTimeInterval, timers, timeouts, countdownText,
                   locationText, tick, isAudioEnabled, currentCity, storage,
                   inFlight, tornDown, cleanupError, cleanupCleared, loadedFrom, arg>>

InitFormat == InitAt({At3(12, 0, 0)}, {NothingStored}, TimesOfDay)

NextFormat == applyFormatTime

SpecFormat == InitFormat /\ [][NextFormat]_vars

\* ------------------------------------------------------------------------
\* formatTimeRemaining applied alone, to every number of seconds of a day
\* ------------------------------------------------------------------------

DurationInputs == [seconds : 0..86399]

\* out = formatTimeRemaining(seconds) for the number of seconds arg
applyFormatTimeRemaining ==
    /\ out = <<>>
    /\ out' = formatTimeRemaining(arg.seconds)
    /\ UNCHANGED <<script, started, clock, timings, prayerTimes, nextPrayer,
                   currentPrayerName, active, resolvedAt, countdownInterval,
                   updateDateTimeInterval, timers, timeouts, countdownText,
                   locationText, tick, isAudioEnabled, currentCity, storage,
                   inFlight, tornDown, cleanupError, cleanupCleared, loadedFrom, arg>>

InitDuration == InitAt({At3(12, 0, 0)}, {NothingStored}, DurationInputs)

NextDuration == applyFormatTimeRemaining

SpecDuration == InitDuration /\ [][NextDuration]_vars

\* ------------------------------------------------------------------------
\* updateNextPrayer and the tick it starts applied alone, to the ordinary
\* day with any of its entries missing
\* ------------------------------------------------------------------------

MissingInputs == [missing : SUBSET Prayers]

\* the ordinary day's stored schedule without the entries of missing
Without(missing) ==
    [p \in Prayers |-> IF p \in missing THEN Absent ELSE Shown[Day[p]]]

\* out = the selection updateNextPrayer makes on that schedule at the
\* clock's time and the updateCountdown call that follows it
applyUpdateNextPrayer ==
    /\ out = <<>>
    /\ LET pt == Without(arg.missing)
           np == NextPrayerName(pt, CurrentMinutes(clock))
       IN  out' = [next |-> np, current |-> CurrentPrayer(np),
                   call |-> CountdownCall(script, pt, np, isAudioEnabled,
                                          clock, countdownText)]
    /\ UNCHANGED <<script, started, clock, timings, prayerTimes, nextPrayer,
                   currentPrayerName, active, resolvedAt, countdownInterval,
                   updateDateTimeInterval, timers, timeouts, countdownText,
                   locationText, tick, isAudioEnabled, currentCity, storage,
                   inFlight, tornDown, cleanupError, cleanupCleared,
                   loadedFrom, arg>>

InitMissing == InitAt(ResolverInstants, {NothingStored}, MissingInputs)

NextMissing == applyUpdateNextPrayer

SpecMissing == InitMissing /\ [][NextMissing]_vars

\* ------------------------------------------------------------------------
\* storage.js on the stored text: JSON.stringify, JSON.parse,
\* savePreferences and loadPreferences applied alone
\* ------------------------------------------------------------------------

DQ == "\""

BS == "\\"

CityKey == <<"c", "i", "t", "y">>

AudioEnabledKey == <<"a", "u", "d", "i", "o", "E", "n", "a", "b", "l", "e", "d">>

TrueText == <<"t", "r", "u", "e">>

FalseText == <<"f", "a", "l", "s", "e">>

NullText == <<"n", "u", "l", "l">>

\* JavaScript values: strings, booleans, numbers, null, undefined, and a
\* thrown exception in place of a value
JsString(s) == [type |-> "string", str |-> s, bool |-> FALSE]

JsBool(b) == [type |-> "boolean", str |-> <<>>, bool |-> b]

JsNumber(digits) == [type |-> "number", str |-> digits, bool |-> FALSE]

JsNull == [type |-> "null", str |-> <<>>, bool |-> FALSE]

JsUndefined == [type |-> "undefined", str |-> <<>>, bool |-> FALSE]

JsThrown == [type |-> "throws", str |-> <<>>, bool |-> FALSE]

\* an object, of which only the two properties loadPreferences reads are kept
EmptyObject ==
    [type |-> "object", city |-> JsUndefined, audioEnabled |-> JsUndefined]

\* a value in a boolean context
Falsy(v) ==
    \/ v.type \in {"undefined", "null"}
    \/ v.type = "string" /\ v.str = <<>>
    \/ v.type = "boolean" /\ ~v.bool
    \/ v.type = "number" /\ DigitsValue(v.str, 0) = 0

\* the string written without escapes
Unescaped(s) == s

RECURSIVE JsonEscape(_)
\* the body of a JSON string literal: quote and backslash are escaped
JsonEscape(s) ==
    IF s = <<>> THEN <<>>
    ELSE (IF Head(s) \in {DQ, BS} THEN <<BS, Head(s)>> ELSE <<Head(s)>>)
             \o JsonEscape(Tail(s))

Quote(s) == <<DQ>> \o JsonEscape(s) \o <<DQ>>

\* JSON.stringify({ city, audioEnabled })
JSONstringify(city, audioEnabled) ==
    <<"{">> \o Quote(CityKey) \o <<":">> \o Quote(city) \o <<",">>
        \o Quote(AudioEnabledKey) \o <<":">>
        \o (IF audioEnabled THEN TrueText ELSE FalseText) \o <<"}">>

StartsWith(s, p) == Len(s) >= Len(p) /\ SubSeq(s, 1, Len(p)) = p

Drop(s, n) == SubSeq(s, n + 1, Len(s))

\* a step of JSON.parse: whether it succeeded, the value read, the text left
Read(val, rest) == [ok |-> TRUE, val |-> val, rest |-> rest]

Fail == [ok |-> FALSE, val |-> JsUndefined, rest |-> <<>>]

RECURSIVE ReadString(_, _)
\* a string literal from after its opening quote: acc is the text read
ReadString(s, acc) ==
    IF s = <<>> THEN Fail
    ELSE IF Head(s) = DQ THEN Read(JsString(acc), Tail(s))
    ELSE IF Head(s) = BS
         THEN IF Len(s) >= 2 /\ s[2] \in {DQ, BS}
              THEN ReadString(Drop(s, 2), Append(acc, s[2]))
              ELSE Fail
    ELSE ReadString(Tail(s), Append(acc, Head(s)))

\* a string, true, false, null or an unsigned integer
ReadValue(s) ==
    IF s = <<>> THEN Fail
    ELSE IF Head(s) = DQ THEN ReadString(Tail(s), <<>>)
    ELSE IF StartsWith(s, TrueText) THEN Read(JsBool(TRUE), Drop(s, 4))
    ELSE IF StartsWith(s, FalseText) THEN Read(JsBool(FALSE), Drop(s, 5))
    ELSE IF StartsWith(s, NullText) THEN Read(JsNull, Drop(s, 4))
    ELSE IF LeadingDigits(s) # <<>>
         THEN Read(JsNumber(LeadingDigits(s)), Drop(s, Len(LeadingDigits(s))))
    ELSE Fail

RECURSIVE ReadMembers(_, _)
\* the members of an object from the opening quote of a key to the closing
\* brace: obj is the object read so far
ReadMembers(s, obj) ==
    IF s = <<>> \/ Head(s) # DQ THEN Fail
    ELSE LET k == ReadString(Tail(s), <<>>)
         IN  IF ~k.ok \/ k.rest = <<>> \/ Head(k.rest) # ":" THEN Fail
             ELSE LET v == ReadValue(Tail(k.rest))
                      o == IF k.val.str = CityKey
                           THEN [obj EXCEPT !.city = v.val]
                           ELSE IF k.val.str = AudioEnabledKey
                           THEN [obj EXCEPT !.audioEnabled = v.val]
                           ELSE obj
                  IN  IF ~v.ok \/ v.rest = <<>> THEN Fail
                      ELSE IF Head(v.rest) = "}" THEN Read(o, Tail(v.rest))
                      ELSE IF Head(v.rest) = "," THEN ReadMembers(Tail(v.rest), o)
                      ELSE Fail

\* JSON.parse(text) for a text without white space, nested objects or
\* arrays: the value, or JsThrown for the SyntaxError
JSONparse(text) ==
    LET r == IF text # <<>> /\ Head(text) = "{"
             THEN IF Len(text) >= 2 /\ text[2] = "}"
                  THEN Read(EmptyObject, Drop(text, 2))
                  ELSE ReadMembers(Tail(text), EmptyObject)
             ELSE ReadValue(text)
    IN  IF r.ok /\ r.rest = <<>> THEN r.val ELSE JsThrown

\* localStorage's entry 'prayerTimesPreferences'
NoItem == [present |-> FALSE, text |-> <<>>]

setItem(text) == [present |-> TRUE, text |-> text]

\* savePreferences(city, audioEnabled): the entry it leaves
savePreferences(city, audioEnabled) == setItem(JSONstringify(city, audioEnabled))

Prefs(city, audioEnabled) ==
    [thrown |-> FALSE, city |-> city, audioEnabled |-> audioEnabled]

ThrownPrefs == [thrown |-> TRUE, city |-> JsUndefined, audioEnabled |-> JsUndefined]

defaultPrefs == Prefs(JsString(<<"C", "a", "i", "r", "o", ",", "E", "G">>), JsBool(FALSE))

\* property name of a parsed value: undefined on a primitive
Property(parsed, name) ==
    IF parsed.type # "object" THEN JsUndefined
    ELSE IF name = "city" THEN parsed.city ELSE parsed.audioEnabled

\* the body of loadPreferences' try block on entry item: the preferences,
\* or ThrownPrefs where JSON.parse or reading a property of null throws
loadPreferencesTry(item) ==
    IF ~item.present \/ item.text = <<>> THEN defaultPrefs
    ELSE LET parsed == JSONparse(item.text)
         IN  IF parsed.type \in {"throws", "null"} THEN ThrownPrefs
             ELSE Prefs(IF Falsy(Property(parsed, "city")) THEN defaultPrefs.city
                        ELSE Property(parsed, "city"),
                        IF Property(parsed, "audioEnabled").type # "undefined"
                        THEN Property(parsed, "audioEnabled")
                        ELSE defaultPrefs.audioEnabled)

\* loadPreferences() on entry item: the catch clause returns the defaults
loadPreferencesItem(item) ==
    IF loadPreferencesTry(item).thrown THEN defaultPrefs
    ELSE loadPreferencesTry(item)

MaxCityLen == 3

CityAlphabet == {"C", ",", DQ, BS}

\* the non-empty city strings of at most MaxCityLen characters
CityStrings ==
    UNION {[1..n -> CityAlphabet] : n \in 1..MaxCityLen}

\* entries an earlier visit, another page or the user may have left
StoredTexts ==
    { <<>>,
      <<"{">>,
      <<"{", "c", "i", "t", "y">>,
      <<"C", "a", "i", "r", "o">>,
      <<"{", DQ, "c", "i", "t", "y", DQ, ":", DQ, "C", BS, "x", DQ, "}">>,
      <<"{", DQ, "c", "i", "t", "y", DQ, ":", DQ, "C", DQ, ",", "}">>,
      NullText,
      TrueText,
      <<"0">>,
      <<"{", "}">>,
      <<"{", DQ, "c", "i", "t", "y", DQ, ":", DQ, DQ, "}">>,
      <<"{", DQ, "c", "i", "t", "y", DQ, ":", DQ, "C", DQ, "}">> }

StoredItems == {NoItem} \cup {setItem(t) : t \in StoredTexts}

StorageInputs ==
    [kind : {"save"}, city : CityStrings, audioEnabled : BOOLEAN, item : {NoItem}]
        \cup
    [kind : {"item"}, city : {<<>>}, audioEnabled : {FALSE}, item : StoredItems]

\* out = the entry savePreferences(city, audioEnabled) leaves and what
\* loadPreferences() then returns
applySaveThenLoad ==
    /\ out = <<>>
    /\ arg.kind = "save"
    /\ out' = [item  |-> savePreferences(arg.city, arg.audioEnabled),
               prefs |-> loadPreferencesItem(
                             savePreferences(arg.city, arg.audioEnabled))]
    /\ UNCHANGED <<script, started, clock, timings, prayerTimes, nextPrayer,
                   currentPrayerName, active, resolvedAt, countdownInterval,
                   updateDateTimeInterval, timers, timeouts, countdownText,
                   locationText, tick, isAudioEnabled, currentCity, storage,
                   inFlight, tornDown, cleanupError, cleanupCleared,
                   loadedFrom, arg>>

\* out = what loadPreferences() returns on the entry arg.item
applyLoad ==
    /\ out = <<>>
    /\ arg.kind = "item"
    /\ out' = [item |-> arg.item, prefs |-> loadPreferencesItem(arg.item)]
    /\ UNCHANGED <<script, started, clock, timings, prayerTimes, nextPrayer,
                   currentPrayerName, active, resolvedAt, countdownInterval,
                   updateDateTimeInterval, timers, timeouts, countdownText,
                   locationText, tick, isAudioEnabled, currentCity, storage,
                   inFlight, tornDown, cleanupError, cleanupCleared,
                   loadedFrom, arg>>

InitStorage == InitAt({At3(12, 0, 0)}, {NothingStored}, StorageInputs)

NextStorage == applySaveThenLoad \/ applyLoad

SpecStorage == InitStorage /\ [][NextStorage]_vars

\* ------------------------------------------------------------------------
\* Properties of the resolver
\* ------------------------------------------------------------------------

\* a resolver run has happened on a schedule whose six fields are times
ResolvedOnTimes == resolvedAt # -1 /\ AllPlain(timings)

\* positions in the fixed order whose time is strictly after minute t
LaterThan(tm, t) == {i \in 1..6 : MinutesOf(tm[prayerOrder[i]]) > t}

Least(S) == CHOOSE i \in S : \A j \in S : i <= j

\* the prayer before each prayer in the fixed order, isha before fajr
Preceding ==
    [p \in Prayers |->
        CASE p = "fajr" -> "isha"
          [] p = "sunrise" -> "fajr"
          [] p = "dhuhr" -> "sunrise"
          [] p = "asr" -> "dhuhr"
          [] p = "maghrib" -> "asr"
          [] p = "isha" -> "maghrib"]

\* the prayer after each prayer in the fixed order, fajr after isha
Following == [p \in Prayers |-> CHOOSE q \in Prayers : Preceding[q] = p]

\* C1: with all six entries present, the resolver's next is the first
\* prayer in the fixed order whose minutes since midnight (of the API's
\* time) are strictly greater than those of now; fajr when there is none.
C1_NextIsFirstStrictlyLater ==
    ResolvedOnTimes =>
        nextPrayer = IF LaterThan(timings, resolvedAt) = {} THEN "fajr"
                     ELSE prayerOrder[Least(LaterThan(timings, resolvedAt))]

\* C1 witness: the scan stopped at maghrib, past earlier entries that were
\* not upcoming
C1_Witness ==
    /\ ResolvedOnTimes
    /\ nextPrayer = "maghrib"
    /\ Least(LaterThan(timings, resolvedAt)) = 5

\* C2: after a resolver run, current is the prayer just before next in the
\* fixed order, and isha when next is fajr.
C2_CurrentPrecedesNext ==
    resolvedAt # -1 => currentPrayerName = Preceding[nextPrayer]

\* C2 witness: fajr chosen by wraparound (no entry is after now), current
\* is isha
C2_Witness ==
    /\ ResolvedOnTimes
    /\ LaterThan(timings, resolvedAt) = {}
    /\ nextPrayer = "fajr"
    /\ currentPrayerName = "isha"

\* ------------------------------------------------------------------------
\* Properties of the ticker's timers
\* ------------------------------------------------------------------------

\* C3: at most one repeating countdown interval is live, and it is the one
\* the handle countdownInterval names.
C3_OneCountdownInterval ==
    /\ Cardinality(CountdownTimers) <= 1
    /\ \A t \in CountdownTimers : t.id = countdownInterval

\* C3 witness: the modular build after init's start and a search's start
\* (a schedule is loaded): one interval
C3_Witness ==
    /\ script = "modules"
    /\ timings # NoTimings
    /\ Cardinality(CountdownTimers) = 1

\* ------------------------------------------------------------------------
\* Properties of the tick
\* ------------------------------------------------------------------------

\* C4: with the audio flag on and the target unchanged, the cue is played at
\* the first tick inside the last minute and not on a later tick of the same
\* countdown: a call that follows, at a smaller remaining time, a call that
\* played the cue for the same target does not play it again.
C4_CueOncePerCrossing ==
    [][(/\ tick.played
        /\ tick'.ret = "true"
        /\ tick'.name = tick.name
        /\ tick'.target = tick.target
        /\ tick'.remaining < tick.remaining) => ~tick'.played]_vars

\* seconds since midnight of the API's time for the prayer a call worked on
TargetSeconds(call) == MinutesOf(timings[call.name]) * 60

\* C5: on a tick with a parseable target the remaining seconds are
\* targetSeconds - nowSeconds, plus 86400 when that is negative, and lie in
\* 0..86399.
C5_RemainingWraps ==
    tick.ret = "true" =>
        /\ timings[tick.name].kind = "plain"
        /\ tick.remaining =
              IF TargetSeconds(tick) - tick.now < 0
              THEN TargetSeconds(tick) - tick.now + 86400
              ELSE TargetSeconds(tick) - tick.now
        /\ tick.remaining \in 0..86399

\* C5 witness: target 00:05 at 23:58:00 leaves 420 seconds
C5_Witness ==
    /\ tick.ret = "true"
    /\ timings[tick.name] = T(0, 5)
    /\ tick.now = At3(23, 58, 0)
    /\ tick.remaining = 420

\* the entry's hour or minute is not a number
Unparseable(entry) ==
    LET sp == split(entry, " ")
        tm == split(At(sp, 1), ":")
    IN  \/ Len(tm) < 2
        \/ \E part \in {tm[1], tm[2]} :
              part = <<>> \/ ~IsDigit(part[1])

\* C10: when the schedule entry of the selected prayer is absent or
\* unparseable, the tick returns false and leaves the sentinel --:--:-- in
\* the countdown element.
C10_SentinelOnBadEntry ==
    (tick.ret # "none" /\ (tick.entry = Absent \/ Unparseable(tick.entry))) =>
        (tick.ret = "false" /\ tick.text = Sentinel)

\* ------------------------------------------------------------------------
\* Round trip of the 12-hour display string
\* ------------------------------------------------------------------------

\* C6: parsing formatTime's string for hour:minute, as updateNextPrayer and
\* as updateCountdown parse it, gives back hour and minute.
C6_RoundTrip ==
    out # <<>> =>
        /\ ResolverParse(out) = [hours |-> arg.hour, minutes |-> arg.minute]
        /\ CountdownParse(out) = [hours |-> arg.hour, minutes |-> arg.minute]

\* C6 witness: five past noon was formatted and parses back
C6_Witness ==
    /\ arg = [hour |-> 12, minute |-> 5]
    /\ out = <<"1", "2", ":", "0", "5", " ", "m">>
    /\ ResolverParse(out) = [hours |-> 12, minutes |-> 5]

\* ------------------------------------------------------------------------
\* The resolver at a prayer's time and a minute before it
\* ------------------------------------------------------------------------

ResolvedOnWellFormed == resolvedAt # -1 /\ WellFormed(timings)

\* C7 as stated: on a well-formed schedule, when now is P's time, next is
\* the prayer after P.
C7_NextFollowsAtPrayerTime ==
    ResolvedOnWellFormed =>
        \A P \in Prayers :
            resolvedAt = MinutesOf(timings[P]) => nextPrayer = Following[P]

\* P's time is strictly before the time of the prayer after it (isha has
\* none after it within the day)
StrictlyBeforeFollowing(P) ==
    P = "isha" \/ MinutesOf(timings[P]) < MinutesOf(timings[Following[P]])

\* C7 amended: on a well-formed schedule, when now is P's time and the
\* prayer after P is strictly later than P (or P is isha), next is the
\* prayer after P.
C7_NextFollowsWhenStrictlyLater ==
    ResolvedOnWellFormed =>
        \A P \in Prayers :
            (resolvedAt = MinutesOf(timings[P]) /\ StrictlyBeforeFollowing(P))
                => nextPrayer = Following[P]

\* C7 witness: now is dhuhr's time, asr is later, next is asr
C7_Witness ==
    /\ ResolvedOnWellFormed
    /\ resolvedAt = MinutesOf(timings["dhuhr"])
    /\ StrictlyBeforeFollowing("dhuhr")
    /\ nextPrayer = "asr"

\* the minute before minute t on the 24-hour cycle
MinuteBefore(t) == (t + 1439) % 1440

\* C8 as stated: on a well-formed schedule, when now is one minute before
\* P's time, next is P.
C8_NextIsPrayerAMinuteAhead ==
    ResolvedOnWellFormed =>
        \A P \in Prayers :
            resolvedAt = MinuteBefore(MinutesOf(timings[P])) => nextPrayer = P

\* P is the first prayer with its time: fajr, or strictly after the prayer
\* before it
StrictlyAfterPreceding(P) ==
    P = "fajr" \/ MinutesOf(timings[Preceding[P]]) < MinutesOf(timings[P])

\* C8 amended: on a well-formed schedule, when now is one minute before P's
\* time and P is strictly later than the prayer before it (or P is fajr),
\* next is P.
C8_NextIsFirstPrayerAMinuteAhead ==
    ResolvedOnWellFormed =>
        \A P \in Prayers :
            (resolvedAt = MinuteBefore(MinutesOf(timings[P]))
             /\ StrictlyAfterPreceding(P)) => nextPrayer = P

\* C8 witness: a minute before isha, which is later than maghrib: next is
\* isha
C8_Witness ==
    /\ ResolvedOnWellFormed
    /\ resolvedAt = MinuteBefore(MinutesOf(timings["isha"]))
    /\ StrictlyAfterPreceding("isha")
    /\ nextPrayer = "isha"

\* ------------------------------------------------------------------------
\* Teardown
\* ------------------------------------------------------------------------

\* C9: once cleanup has run, no repeating timer is live.
C9_NoTimerAfterTeardown == tornDown => timers = {}

\* C11: a cleanup() call that finds no countdown interval to clear (the
\* first call when none was started, or a call after an earlier one) ends
\* without an error and leaves no countdown interval.
C11_StopIsIdempotent ==
    [][(cleanup /\ countdownInterval = 0) =>
           (/\ cleanupError' = "none"
            /\ countdownInterval' = 0
            /\ CountdownTimers' = {})]_vars

\* ------------------------------------------------------------------------
\* The resolver after isha and before fajr
\* ------------------------------------------------------------------------

\* The resolver reads the hour and the minute of now, so "now strictly
\* after isha" is every now whose minute is isha's or later (isha's own
\* minute from its first second on), and "now strictly before fajr" is
\* every now whose minute is before fajr's.

\* C12: on a well-formed schedule, when now is strictly after isha's time,
\* next is fajr and current is isha.
C12_AfterIshaNextIsFajr ==
    (ResolvedOnWellFormed /\ resolvedAt >= MinutesOf(timings["isha"])) =>
        (nextPrayer = "fajr" /\ currentPrayerName = "isha")

\* C12 witness: a resolver run late in the evening, hours after an isha
\* that fajr precedes by hours: fajr by wraparound
C12_Witness ==
    /\ ResolvedOnWellFormed
    /\ MinutesOf(timings["fajr"]) < MinutesOf(timings["isha"])
    /\ resolvedAt > MinutesOf(timings["isha"])
    /\ nextPrayer = "fajr"
    /\ currentPrayerName = "isha"

\* C13: on a well-formed schedule, when now is strictly before fajr's time,
\* next is fajr and current is isha.
C13_BeforeFajrNextIsFajr ==
    (ResolvedOnWellFormed /\ resolvedAt < MinutesOf(timings["fajr"])) =>
        (nextPrayer = "fajr" /\ currentPrayerName = "isha")

\* C13 witness: a resolver run at 05:06 on a schedule whose fajr is 05:07
C13_Witness ==
    /\ ResolvedOnWellFormed
    /\ timings["fajr"] = T(5, 7)
    /\ resolvedAt = 5 * 60 + 6
    /\ nextPrayer = "fajr"
    /\ currentPrayerName = "isha"

\* ------------------------------------------------------------------------
\* The HH:MM:SS string of a duration
\* ------------------------------------------------------------------------

\* the number two decimal digits a and b write
TwoDigits(a, b) == DigitVal(a) * 10 + DigitVal(b)

\* C14: for every number of seconds in 0..86399, formatTimeRemaining gives
\* eight characters HH:MM:SS, all digits but the two colons, with
\* HH = seconds div 3600, MM = (seconds mod 3600) div 60, SS = seconds mod 60.
C14_DurationFormat ==
    out # <<>> =>
        /\ Len(out) = 8
        /\ out[3] = ":" /\ out[6] = ":"
        /\ \A i \in {1, 2, 4, 5, 7, 8} : IsDigit(out[i])
        /\ TwoDigits(out[1], out[2]) = arg.seconds \div 3600
        /\ TwoDigits(out[4], out[5]) = (arg.seconds % 3600) \div 60
        /\ TwoDigits(out[7], out[8]) = arg.seconds % 60

\* C14 witness: 3661 seconds were formatted as 01:01:01
C14_Witness ==
    /\ arg = [seconds |-> 3661]
    /\ out = <<"0", "1", ":", "0", "1", ":", "0", "1">>

\* ------------------------------------------------------------------------
\* Starting the ticker
\* ------------------------------------------------------------------------

\* a schedule is loaded: a search's response is stored (updatePrayerTimes
\* did not throw), then updateNextPrayer and startCountdown run
Loads ==
    \E i \in 1..MaxInFlight, tm \in Responses :
        /\ ~UpdatePrayerTimesThrows(tm)
        /\ handleSearchResolves(i, tm) \/ fetchTimed(i, tm)

\* the steps in which startCountdown() runs: in the modular build every
\* updateNextPrayer() (init's and the one-minute refresh's updateDateTime,
\* a load), in the single file a load
StartsCountdown ==
    \/ initModules
    \/ script = "modules" /\ updateDateTime
    \/ Loads

\* C15: a step that starts the ticker makes one updateCountdown call within
\* the step, on the selection, the schedule and the clock the step leaves
\* (the countdown element shows its result, unless init's search then puts
\* the loading text there), and leaves exactly one countdown interval, of
\* period 1000 ms, that the handle names; a countdown interval goes away
\* only in a step that starts the ticker again or in cleanup.
C15_StartTicksThenArms ==
    [][/\ StartsCountdown =>
            /\ tick'.ret # "none"
            /\ tick'.now = CurrentSeconds(clock')
            /\ tick'.name = nextPrayer'
            /\ tick'.entry = prayerTimes'[nextPrayer']
            /\ ~initModules => countdownText' = tick'.text
            /\ Cardinality(CountdownTimers') = 1
            /\ \A t \in CountdownTimers' :
                  t.id = countdownInterval' /\ t.ms = 1000
       /\ CountdownTimers' # CountdownTimers => (StartsCountdown \/ cleanup)
      ]_vars

\* C15 witness: a start on a loaded schedule: the tick it made counted down
\* to the selection at the present clock and is on display, and one
\* one-second interval is armed
C15_Witness ==
    /\ timings # NoTimings
    /\ tick.ret = "true"
    /\ tick.now = CurrentSeconds(clock)
    /\ tick.name = nextPrayer
    /\ countdownText = tick.text
    /\ \E t \in CountdownTimers : t.id = countdownInterval /\ t.ms = 1000
    /\ Cardinality(CountdownTimers) = 1

\* ------------------------------------------------------------------------
\* When the selection is recomputed
\* ------------------------------------------------------------------------

\* C16: every date/time refresh (init's updateDateTime() call and each
\* firing of the one-minute interval) and every load of a schedule leaves
\* the stored selection equal to the resolver's result for the schedule and
\* the clock of that moment; from init until cleanup one interval of period
\* 60000 ms calls updateDateTime.
C16_RecomputedOnRefreshAndLoad ==
    [][/\ (init \/ updateDateTime \/ Loads) =>
            /\ nextPrayer' = NextPrayerName(prayerTimes', CurrentMinutes(clock'))
            /\ currentPrayerName' = CurrentPrayer(nextPrayer')
            /\ resolvedAt' = CurrentMinutes(clock')
       /\ (started' /\ ~tornDown') =>
            /\ Cardinality(DateTimeTimers') = 1
            /\ \A t \in DateTimeTimers' : t.ms = 60000
      ]_vars

\* C16 witness: with a schedule loaded whose fajr is 05:07 and the
\* one-minute interval live, the selection was computed at 05:06, the
\* present minute, and is fajr
C16_Witness ==
    /\ started /\ ~tornDown
    /\ AllPlain(timings)
    /\ clock = At3(5, 6, 0)
    /\ resolvedAt = CurrentMinutes(clock)
    /\ nextPrayer = NextPrayerName(prayerTimes, CurrentMinutes(clock))
    /\ nextPrayer = "fajr" /\ timings["fajr"] = T(5, 7)
    /\ DateTimeTimers # {}

\* ------------------------------------------------------------------------
\* Missing and malformed entries in the scan
\* ------------------------------------------------------------------------

\* the stored entry of prayer p is missing, or its hour or minute is not a
\* number
BadEntry(p) == prayerTimes[p] = Absent \/ Unparseable(prayerTimes[p])

\* C17 as stated: the prayer returned as next never has a missing or
\* malformed entry.
C17_BadEntryNeverNext ==
    resolvedAt # -1 => ~BadEntry(nextPrayer)

\* positions in the fixed order whose entry is well-formed and strictly
\* after minute t
GoodLaterThan(t) ==
    {i \in 1..6 : /\ ~BadEntry(prayerOrder[i])
                  /\ MinutesOf(timings[prayerOrder[i]]) > t}

\* C17 amended: the scan passes over missing and malformed entries: next is
\* the first prayer with a well-formed entry strictly after now, and fajr
\* when there is none; so a prayer with a missing or malformed entry is
\* returned only as that default, fajr.
C17_BadEntryOnlyAsDefault ==
    resolvedAt # -1 =>
        /\ nextPrayer = IF GoodLaterThan(resolvedAt) = {} THEN "fajr"
                        ELSE prayerOrder[Least(GoodLaterThan(resolvedAt))]
        /\ BadEntry(nextPrayer) =>
              (nextPrayer = "fajr" /\ GoodLaterThan(resolvedAt) = {})

\* C17 witness: at 05:07 sunrise's entry (06:30 with a time-zone tag) is
\* malformed and later than now; the scan passed over it to dhuhr
C17_Witness ==
    /\ timings = ZonedSunrise
    /\ resolvedAt = 5 * 60 + 7
    /\ BadEntry("sunrise")
    /\ nextPrayer = "dhuhr"

\* ------------------------------------------------------------------------
\* The stored schedule
\* ------------------------------------------------------------------------

\* the responses that carry all six timing fields
FullResponses == {tm \in Responses : \A p \in Prayers : tm[p].kind # "absent"}

\* a response without one of its fields arrives in a search
LoadsIncomplete ==
    \E i \in 1..MaxInFlight, tm \in Responses \ FullResponses :
        handleSearchResolves(i, tm) \/ fetchTimed(i, tm)

\* C18: the stored schedule is always the empty initial one or the six
\* formatted fields of one response that has them all; the arrival of a
\* response that lacks a field leaves the stored schedule as it was.
C18_ScheduleReplacedWholesale ==
    [][/\ \/ prayerTimes' = EmptySchedule
          \/ \E tm \in FullResponses :
                \A p \in Prayers : prayerTimes'[p] = Shown[tm[p]]
       /\ LoadsIncomplete => prayerTimes' = prayerTimes
      ]_vars

\* C18 witness: the modular build holds the ordinary day loaded for Cairo;
\* a search for Mecca was answered without the Isha field: it got as far as
\* the current city and no entry of the schedule changed
C18_Witness ==
    /\ script = "modules"
    /\ inFlight = <<>>
    /\ currentCity = "Mecca,Saudi Arabia"
    /\ storage = Saved("Cairo,Egypt", FALSE)
    /\ locationText = "loading"
    /\ timings = Day
    /\ \A p \in Prayers : prayerTimes[p] = Shown[Day[p]]

\* ------------------------------------------------------------------------
\* A search that fails
\* ------------------------------------------------------------------------

\* a search ends in failure: no city found, a fetch that fails or is not a
\* success, or a response without one of the six timing fields
FailedSearch ==
    \/ \E i \in 1..MaxInFlight, transport \in BOOLEAN : searchFails(i, transport)
    \/ LoadsIncomplete

\* C19: the step in which a search fails leaves the stored schedule, the
\* selection, the current city and the countdown interval as they were.
C19_FailedSearchChangesNothing ==
    [][FailedSearch =>
           /\ prayerTimes' = prayerTimes
           /\ nextPrayer' = nextPrayer
           /\ currentPrayerName' = currentPrayerName
           /\ currentCity' = currentCity
           /\ countdownInterval' = countdownInterval
           /\ CountdownTimers' = CountdownTimers]_vars

\* ------------------------------------------------------------------------
\* When the tick plays the cue
\* ------------------------------------------------------------------------

\* seconds from the instant a call read to the API's time of the prayer it
\* worked on, forward on the 24-hour cycle
SecondsAhead(call, tm) ==
    (MinutesOf(tm[call.name]) * 60 - call.now + 86400) % 86400

\* C20: a tick that plays the cue is 1 to 60 seconds ahead of the selected
\* prayer's time and runs with the audio flag on: the cue is not played at
\* 0 seconds, beyond 60 seconds, or with the flag off.
C20_CueOnlyInLastMinuteWhenEnabled ==
    [][(tick' # tick /\ tick'.played) =>
           /\ tick'.remaining \in 1..60
           /\ SecondsAhead(tick', timings') = tick'.remaining
           /\ isAudioEnabled']_vars

\* C20 witness: the single file, audio on, played the cue 60 seconds
\* before fajr
C20_Witness ==
    /\ script = "single"
    /\ isAudioEnabled
    /\ tick.played
    /\ tick.name = "fajr"
    /\ tick.remaining = 60

\* ------------------------------------------------------------------------
\* The selection a tick counts down to
\* ------------------------------------------------------------------------

\* the minute of the instant a call read
MinuteOf(call) == call.now \div 60

\* the call was made in the minute of the resolver's last run or in the
\* minute after it: the one-minute refresh has had no time to be overdue
WithinRefreshPeriod(call) ==
    MinuteOf(call) \in {resolvedAt, (resolvedAt + 1) % 1440}

\* C21: a tick on a well-formed schedule counts down to the prayer the
\* resolver gives for that schedule at the tick's own time: the first
\* prayer strictly after the tick's minute, fajr when there is none.
\* (Stated for the ticks made no later than the minute after the resolver's
\* last run.)
C21_TickSelectionIsCurrent ==
    (tick.ret = "true" /\ WellFormed(timings) /\ WithinRefreshPeriod(tick)) =>
        tick.name = IF LaterThan(timings, MinuteOf(tick)) = {} THEN "fajr"
                    ELSE prayerOrder[Least(LaterThan(timings, MinuteOf(tick)))]

\* ------------------------------------------------------------------------
\* Searches in flight together
\* ------------------------------------------------------------------------

\* C22: once no search is in flight, the stored schedule is that of the
\* search requested last among those that delivered one: it did not come
\* from a search that a later-requested search had already overtaken.
C22_LastRequestedSearchWins ==
    inFlight = <<>> => ~loadedFrom.overtaken

\* ------------------------------------------------------------------------
\* One city on display
\* ------------------------------------------------------------------------

\* the place of the search whose response is the stored schedule
ScheduleCity == Geocode(loadedFrom.query)

\* the texts the location element shows for a place
CityNames == {LocationString(Cairo), LocationString(Mecca)}

\* C23: once a schedule is stored, the current city kept for persistence
\* is the city of the search that brought the stored schedule, and so is
\* the city the location element names when it names one.
C23_OneCityOnDisplay ==
    loadedFrom # NoSearch =>
        /\ currentCity = CityString(ScheduleCity)
        /\ locationText \in CityNames => locationText = LocationString(ScheduleCity)

\* ------------------------------------------------------------------------
\* Leaving the loading state
\* ------------------------------------------------------------------------

\* C24: a tick that runs when every search has completed leaves neither
\* the countdown element nor the location element showing the loading
\* text.
C24_LoadingTextLeaves ==
    [][((updateCountdown \/ updateCountdownTimeout) /\ inFlight = <<>>) =>
           (countdownText' # LoadingText /\ locationText' # "loading")]_vars

\* ------------------------------------------------------------------------
\* The soonest prayer
\* ------------------------------------------------------------------------

\* the six times strictly increase in the fixed order
StrictlyIncreasing(tm) ==
    /\ AllPlain(tm)
    /\ \A i \in 1..5 : MinutesOf(tm[prayerOrder[i]]) < MinutesOf(tm[prayerOrder[i + 1]])

\* minutes from minute t forward to prayer p's time on the 24-hour cycle;
\* a prayer at minute t itself is a whole day ahead
MinutesAhead(p, t) ==
    LET d == (MinutesOf(timings[p]) - t + 1440) % 1440
    IN  IF d = 0 THEN 1440 ELSE d

\* C25: on a strictly increasing schedule next is the prayer soonest after
\* now on the 24-hour cycle, every other prayer being further ahead; the
\* tick made in the minute of the resolver run for that selection has 1 to
\* 86399 seconds remaining.
C25_NextIsSoonest ==
    (resolvedAt # -1 /\ StrictlyIncreasing(timings)) =>
        /\ \A q \in Prayers \ {nextPrayer} :
              MinutesAhead(nextPrayer, resolvedAt) < MinutesAhead(q, resolvedAt)
        /\ (tick.ret # "none" /\ tick.name = nextPrayer
            /\ MinuteOf(tick) = resolvedAt) =>
              (tick.ret = "true" /\ tick.remaining \in 1..86399)

\* C25 witness: at 23:59 of the long day, whose isha is that minute, fajr
\* at midnight is soonest and the tick has 60 seconds remaining
C25_Witness ==
    /\ timings = LongDay
    /\ resolvedAt = 23 * 60 + 59
    /\ nextPrayer = "fajr"
    /\ MinutesAhead("fajr", resolvedAt) = 1
    /\ tick.name = "fajr"
    /\ tick.now = At3(23, 59, 0)
    /\ tick.remaining = 60

\* ------------------------------------------------------------------------
\* Missing entries
\* ------------------------------------------------------------------------

\* positions of the ordinary day's entries that are present and strictly
\* after minute t
PresentLaterThan(missing, t) ==
    {i \in 1..6 : prayerOrder[i] \notin missing /\ MinutesOf(Day[prayerOrder[i]]) > t}

\* C26: with any subset of the six entries missing the resolver returns a
\* selection: next is the first present entry strictly after now, fajr
\* when there is none, and current is the prayer before next; with every
\* entry missing next is fajr, current is isha, and the tick that follows
\* returns false and shows --:--:--.
C26_MissingEntriesDefaultToFajr ==
    out # <<>> =>
        /\ out.next =
              IF PresentLaterThan(arg.missing, CurrentMinutes(clock)) = {}
              THEN "fajr"
              ELSE prayerOrder[Least(PresentLaterThan(arg.missing, CurrentMinutes(clock)))]
        /\ out.current = Preceding[out.next]
        /\ arg.missing = Prayers =>
              /\ out.next = "fajr"
              /\ out.current = "isha"
              /\ out.call.ret = "false"
              /\ out.call.text = Sentinel

\* C26 witness: every entry missing: fajr, isha and the sentinel
C26_Witness ==
    /\ arg.missing = Prayers
    /\ out # <<>>
    /\ out.next = "fajr"
    /\ out.current = "isha"
    /\ out.call.text = Sentinel

\* ------------------------------------------------------------------------
\* The highlight
\* ------------------------------------------------------------------------

\* C27: once the resolver has run, exactly one prayer card is highlighted
\* and it is the card of the current prayer, the one before the selected
\* next prayer; no highlight of an earlier run is left.
C27_OneHighlightOnCurrent ==
    started =>
        /\ Cardinality(active) = 1
        /\ active = {currentPrayerName}
        /\ currentPrayerName = Preceding[nextPrayer]

\* C27 witness: a schedule is loaded and the one highlight is on a card
\* other than isha, the card the first run on the empty schedule
\* highlighted
C27_Witness ==
    /\ started
    /\ timings # NoTimings
    /\ currentPrayerName # "isha"
    /\ active = {currentPrayerName}

\* ------------------------------------------------------------------------
\* The shape of the 12-hour display string
\* ------------------------------------------------------------------------

\* the text of out before and after its colon
HourPart(s) == At(split(s, ":"), 1)

AfterColon(s) == At(split(s, ":"), 2)

\* C28: for every hour 0..23 and minute 0..59 formatTime returns
\* "<h>:<mm> <marker>": h is in 1..12 and is the hour modulo 12 with 0
\* shown as 12 (so hours 0 and 12 both give 12), mm is the minute in
\* exactly two digits, and the marker is the morning one ("s") exactly
\* when the hour is below 12 and the evening one ("m") otherwise.
C28_TwelveHourShape ==
    out # <<>> =>
        /\ Len(split(out, ":")) = 2
        /\ Number(HourPart(out)) \in 1..12
        /\ Number(HourPart(out)) % 12 = arg.hour % 12
        /\ arg.hour \in {0, 12} => HourPart(out) = <<"1", "2">>
        /\ Len(AfterColon(out)) = 4
        /\ Number(SubSeq(AfterColon(out), 1, 2)) = arg.minute
        /\ AfterColon(out)[3] = " "
        /\ AfterColon(out)[4] \in {"s", "m"}
        /\ AfterColon(out)[4] = "s" <=> arg.hour < 12

\* C28 witness: five past midnight was formatted as 12:05 with the
\* morning marker
C28_Witness ==
    /\ arg = [hour |-> 0, minute |-> 5]
    /\ out = <<"1", "2", ":", "0", "5", " ", "s">>

\* ------------------------------------------------------------------------
\* The preference store
\* ------------------------------------------------------------------------

\* the entry holds nothing, or a text JSON.parse rejects
NothingOrUnparseable(item) ==
    \/ ~item.present
    \/ item.text = <<>>
    \/ JSONparse(item.text).type = "throws"

\* C29: for every non-empty city and boolean audioEnabled, loadPreferences
\* after savePreferences(city, audioEnabled) returns exactly that city and
\* that boolean; with no entry, or an entry that is not JSON,
\* loadPreferences returns the defaults Cairo,EG and false; in neither
\* case does it throw.
C29_PreferencesRoundTrip ==
    out # <<>> =>
        /\ ~out.prefs.thrown
        /\ arg.kind = "save" =>
              out.prefs = Prefs(JsString(arg.city), JsBool(arg.audioEnabled))
        /\ (arg.kind = "item" /\ NothingOrUnparseable(arg.item)) =>
              out.prefs = defaultPrefs

\* C29 witness: a city holding a quote and a backslash was saved with
\* audio on and loaded back
C29_Witness ==
    /\ arg.kind = "save"
    /\ arg.city = <<"C", DQ, BS>>
    /\ arg.audioEnabled
    /\ out # <<>>
    /\ out.prefs.city.str = <<"C", DQ, BS>>
    /\ out.prefs.audioEnabled.bool

====
